---- MODULE Spec2Model ----
(***************************************************************************)
(* Model of src/src/template_finder.py: TemplateMatch, TemplateFinder.search *)
(* (the Match Engine) and TemplateFinder.search_and_wait (the Poll Loop).    *)
(*                                                                           *)
(* Scores are fixed point, in tenths: the python score 0.4 is 4 here, the    *)
(* kernel's range [-1.0, 1.0] is -10..10.  The correlation kernel            *)
(* (cv2.matchTemplate + cv2.minMaxLoc) is a stub: an image carries, for each *)
(* template it may be correlated with, the maximal score the kernel finds,   *)
(* and the corner of the score field where it finds it.                      *)
(***************************************************************************)
EXTENDS Integers, Sequences, FiniteSets, TLC

VARIABLES
    config,          \* self._config: template_threshold, info_screenshots
    pc,              \* position of the caller / of search_and_wait
    ref,             \* search_and_wait: ref, a list after line 144
    roi,             \* search_and_wait: roi
    time_out,        \* search_and_wait: time_out (None or <<t>>)
    threshold,       \* search_and_wait: threshold, resolved at line 145
    best_match,      \* search_and_wait: best_match
    take_ss,         \* search_and_wait: take_ss
    start,           \* search_and_wait: start
    img,             \* search_and_wait: img, the image of the last grab
    template_match,  \* search_and_wait: template_match
    now,             \* time.time()
    call,            \* the last invocation of search: its arguments and outcome
    ret,             \* what search_and_wait returned (None before it returns)
    written          \* what the calls of cv2.imwrite (line 157) returned, in order

vars == <<config, pc, ref, roi, time_out, threshold, best_match, take_ss,
          start, img, template_match, now, call, ret, written>>

(***************************************************************************)
(* Bounds of the model.                                                      *)
(***************************************************************************)
MaxLen == 3      \* longest key list handed to a direct search
MaxTime == 2     \* the clock stops advancing here

None == <<>>         \* python None for optional numbers, tuples, records
NoneName == "None"   \* python None for TemplateMatch.name

(***************************************************************************)
(* Values the inputs are drawn from.                                         *)
(***************************************************************************)
Keys == {"A", "B", "LOADING"}
RAW == "_raw"                        \* identity of a raw image used as template
Score == {-2, 3, 4, 9}               \* max_val of the kernel, in tenths
ScreenScore == {-2, 9}               \* max_val of the kernel on a grabbed image
Thresholds == {-5, 3}                \* thresholds, in tenths
ConfigThresholds == {3}              \* template_threshold of the configuration
ImgShape == <<4, 4>>                 \* (rows, columns) of a captured image
ROIs == {None, <<1, 1, 2, 2>>}       \* [left, top, width, height]
\* regions that are not inside the image: one reaching beyond it, one of
\* negative size that wraps around, one of negative width that is empty
OutsideROIs == {<<2, 2, 4, 4>>, <<0, 0, -1, -1>>, <<1, 1, -1, 2>>}
RawShape == <<1, 1>>                 \* (rows, columns) of the raw template
Corners == {"first", "last"}         \* where in the score field the maximum is
TimeOuts == {None, <<0>>, <<1>>}

\* ref of search: a key, a list of keys, or a raw image used as template
KeyRef(k) == [kind |-> "str", key |-> k]
ListRef(ks) == [kind |-> "list", keys |-> ks]
RawRef(t) == [kind |-> "raw", template |-> t]
\* references holding the key X, which the Template Store does not hold
UnknownKeyRefs ==
    {KeyRef("X"), ListRef(<<"X">>), ListRef(<<"A", "X">>), ListRef(<<"X", "B">>),
     ListRef(<<"B", "A", "X">>)}
WaitRefs ==
    {KeyRef("A"), ListRef(<<"A", "B">>), ListRef(<<"LOADING">>),
     ListRef(<<"B", "LOADING">>)}

Range(s) == {s[i] : i \in DOMAIN s}
SeqsUpTo(S, n) == UNION {[1..k -> S] : k \in 0..n}
Max(s) == CHOOSE m \in Range(s) : \A x \in Range(s) : x <= m

(***************************************************************************)
(* TemplateMatch (lines 13-18): the dataclass and its defaults.              *)
(***************************************************************************)
DefaultScore == -10
\* the dataclass with 0 as the default score
TemplateMatch_ZeroScore ==
    [name |-> NoneName, score |-> 0, position |-> None, valid |-> FALSE]
TemplateMatch ==
    [name |-> NoneName, score |-> DefaultScore, position |-> None, valid |-> FALSE]

(***************************************************************************)
(* The Template Store built by __init__ (lines 33-38): key -> [template,     *)
(* scale]; a template is known here by its identity and its shape, and the   *)
(* scale is 1.0 for every entry.                                             *)
(***************************************************************************)
TemplateScale == 1
_templates ==
    [k \in Keys |->
        <<[id |-> k,
           shape |-> CASE k = "A" -> <<1, 1>>
                       [] k = "B" -> <<2, 2>>
                       [] OTHER   -> <<1, 2>>],
          TemplateScale>>]

(***************************************************************************)
(* numpy and cv2 as search uses them.                                        *)
(***************************************************************************)
\* one bound of a python slice over an axis of length n
SliceBound(i, n) == IF i < 0 THEN (IF i + n < 0 THEN 0 ELSE i + n)
                    ELSE (IF i > n THEN n ELSE i)
\* number of elements of axis[lo:hi]
SliceLen(lo, hi, n) ==
    IF SliceBound(hi, n) > SliceBound(lo, n)
    THEN SliceBound(hi, n) - SliceBound(lo, n) ELSE 0

\* line 66: inp_img[ry:ry + rh, rx:rx + rw]; the kernel's answers are those
\* for the region that is left
Crop(inp_img, rx, ry, rw, rh) ==
    [inp_img EXCEPT !.shape = <<SliceLen(ry, ry + rh, inp_img.shape[1]),
                                SliceLen(rx, rx + rw, inp_img.shape[2])>>]

\* an image without rows or without columns
IsEmpty(image) == image.shape[1] = 0 \/ image.shape[2] = 0

\* line 88: cv2.resize(inp_img, None, fx=scale, fy=scale, ...)
Resize(image, scale) ==
    [image EXCEPT !.shape = <<image.shape[1] * scale, image.shape[2] * scale>>]

\* lines 95-96: cv2.matchTemplate, then cv2.minMaxLoc: (max_val, max_pos);
\* max_pos = (x, y) is a place of the score field, whose size is the
\* image's less the template's plus one
MatchTemplate(image, template) ==
    [max_val |-> image.val[template.id],
     max_pos |-> IF image.corner = "first" THEN <<0, 0>>
                 ELSE <<image.shape[2] - template.shape[2],
                        image.shape[1] - template.shape[1]>>]

\* line 102: Screen.convert_screen_to_monitor
MonitorOffset == <<10, 20>>
convert_screen_to_monitor(p) == <<p[1] + MonitorOffset[1], p[2] + MonitorOffset[2]>>

(***************************************************************************)
(* TemplateFinder.search (lines 43-123).                                     *)
(***************************************************************************)
\* the keys of ref
KeysOf(r) ==
    CASE r.kind = "str"  -> <<r.key>>
      [] r.kind = "list" -> r.keys
      [] OTHER           -> <<>>

\* lines 69 and 74 looking up the first key only
MissingKeys_FirstOnly(r) ==
    {i \in DOMAIN KeysOf(r) : i = 1 /\ KeysOf(r)[i] \notin DOMAIN _templates}

\* lines 69-70 and 74-75: the indices of ref whose lookup self._templates[key]
\* raises KeyError; every key is looked up before the loop starts
MissingKeys(r) == {i \in DOMAIN KeysOf(r) : KeysOf(r)[i] \notin DOMAIN _templates}

\* self._templates[key], for a key that is there; for one that is not, the
\* lookup has raised and the entry is not used
Entry(k) ==
    IF k \in DOMAIN _templates THEN _templates[k]
    ELSE <<[id |-> k, shape |-> <<1, 1>>], TemplateScale>>

\* lines 40-41: get_template(key)
get_template(key) ==
    IF key \in DOMAIN _templates
    THEN [raised |-> "no", template |-> _templates[key][1]]
    ELSE [raised |-> "KeyError", template |-> None]

\* line 61 (and line 145): the threshold, the configuration's when None
ResolveThreshold(th, cfg) == IF th = None THEN cfg.template_threshold ELSE th[1]

\* lines 62-64: the roi, the whole image when None
ResolveRoi(r, inp_img) ==
    IF r = None THEN <<0, 0, inp_img.shape[2], inp_img.shape[1]>> ELSE r

\* lines 68-80: templates, scales, names and the selection mode per kind of ref
Templates(r) ==
    CASE r.kind = "str"  -> <<Entry(r.key)[1]>>
      [] r.kind = "list" -> [i \in DOMAIN r.keys |-> Entry(r.keys[i])[1]]
      [] OTHER           -> <<r.template>>
Scales(r) ==
    CASE r.kind = "str"  -> <<Entry(r.key)[2]>>
      [] r.kind = "list" -> [i \in DOMAIN r.keys |-> Entry(r.keys[i])[2]]
      [] OTHER           -> <<1>>
\* names is not bound for a raw image: names[count] then fails, and is caught
Names(r) ==
    CASE r.kind = "str"  -> <<r.key>>
      [] r.kind = "list" -> r.keys
      [] OTHER           -> <<>>
\* lines 72 and 80 missing, and best_match forced for a list
BestMatchMode_ListAlways(r, bm) == r.kind = "list"

\* lines 72 and 80: best_match is dropped for a key and for a raw image
BestMatchMode(r, bm) == IF r.kind = "list" THEN bm ELSE FALSE

\* lines 82-83: len(ref): characters of a key, keys of a list, rows of an image
LenRef(r) ==
    CASE r.kind = "str"  -> Len(r.key)
      [] r.kind = "list" -> Len(r.keys)
      [] OTHER           -> r.template.shape[1]

\* lines 108-109 and 117-118: try: template_match.name = names[i]; except: pass
NameAt(tm, names, i) == IF i \in DOMAIN names THEN names[i] ELSE tm.name

\* line 94 with >= for >
Fits_NonStrict(image, template) ==
    image.shape[1] >= template.shape[1] /\ image.shape[2] >= template.shape[2]

\* line 94: the size guard
Fits(image, template) ==
    image.shape[1] > template.shape[1] /\ image.shape[2] > template.shape[2]

\* line 97 with >= for >
Exceeds_NonStrict(max_val, th) == max_val >= th

\* line 97: the threshold test
Exceeds(max_val, th) == max_val > th

\* line 98 adding the whole size of the template, not half of it
RefPoint_FullSize(max_pos, template, rx, ry, scale) ==
    <<(max_pos[1] + template.shape[2] + rx) \div scale,
      (max_pos[2] + template.shape[1] + ry) \div scale>>

\* lines 98-99: the centre of the template, in the coordinates of inp_img
RefPoint(max_pos, template, rx, ry, scale) ==
    <<(max_pos[1] + (template.shape[2] \div 2) + rx) \div scale,
      (max_pos[2] + (template.shape[1] \div 2) + ry) \div scale>>

\* line 115 with >= for >
AnyRecorded_NonStrict(scores) == Max(scores) >= 0

\* line 115: has best-match mode recorded a candidate
AnyRecorded(scores) == Max(scores) > 0

\* line 116 taking the last index of the maximum
IndexOfMax_Last(scores) ==
    CHOOSE i \in DOMAIN scores :
        /\ scores[i] = Max(scores)
        /\ \A j \in DOMAIN scores : scores[j] = Max(scores) => j <= i

\* line 116: scores.index(max(scores))
IndexOfMax(scores) ==
    CHOOSE i \in DOMAIN scores :
        /\ scores[i] = Max(scores)
        /\ \A j \in DOMAIN scores : scores[j] = Max(scores) => i <= j

\* lines 115-123: after the loop.  s: the locals of search; c: what the loop
\* does not change
SearchFinish(s, c) ==
    IF s.scores = <<>>
    THEN [raised |-> "ValueError", match |-> TemplateMatch, idx |-> 0,
          evaluated |-> s.evaluated, converts |-> s.converts]
    ELSE IF AnyRecorded(s.scores)
    THEN LET idx == IndexOfMax(s.scores)
         IN [raised |-> "no",
             match |-> [name |-> NameAt(s.template_match, c.names, idx),
                        score |-> s.scores[idx],
                        position |-> s.ref_points[idx],
                        valid |-> TRUE],
             idx |-> idx, evaluated |-> s.evaluated, converts |-> s.converts]
    ELSE [raised |-> "no", match |-> s.template_match, idx |-> 0,
          evaluated |-> s.evaluated, converts |-> s.converts]

\* lines 84-113: the loop over the candidates, from candidate count on
RECURSIVE SearchLoop(_, _, _)
SearchLoop(count, s, c) ==
    IF count > Len(c.templates) THEN SearchFinish(s, c)
    ELSE
    LET template == c.templates[count]
        scale == c.scales[count]
        image == Resize(c.inp_img, scale)
        rx == s.rx * scale
        ry == s.ry * scale
        s1 == [s EXCEPT !.template_match = TemplateMatch, !.rx = rx, !.ry = ry]
    IN  IF IsEmpty(c.inp_img)
        THEN \* line 88: cv2.resize raises on an empty source
             [raised |-> "cv2.error", match |-> TemplateMatch, idx |-> 0,
              evaluated |-> s.evaluated, converts |-> s.converts]
        ELSE
        IF ~Fits(image, template) THEN SearchLoop(count + 1, s1, c)
        ELSE
        LET res == MatchTemplate(image, template)
            s2 == [s1 EXCEPT !.evaluated = Append(@, count)]
        IN  IF ~Exceeds(res.max_val, c.threshold) THEN SearchLoop(count + 1, s2, c)
            ELSE
            LET p == RefPoint(res.max_pos, template, rx, ry, scale)
                ref_point == IF c.normalize_monitor
                             THEN convert_screen_to_monitor(p) ELSE p
                s3 == [s2 EXCEPT !.converts =
                                    IF c.normalize_monitor THEN @ + 1 ELSE @]
            IN  IF c.best_match
                THEN SearchLoop(count + 1,
                                [s3 EXCEPT !.scores[count] = res.max_val,
                                           !.ref_points[count] = ref_point],
                                c)
                ELSE [raised |-> "no",
                      match |-> [name |-> NameAt(s3.template_match, c.names, count),
                                 score |-> res.max_val,
                                 position |-> ref_point,
                                 valid |-> TRUE],
                      idx |-> count,
                      evaluated |-> s3.evaluated, converts |-> s3.converts]

\* search(ref, inp_img, threshold, roi, normalize_monitor, best_match): its
\* outcome: whether it raised, the TemplateMatch returned, the index of the
\* candidate it is made of (0: none), the candidates correlated, in order,
\* and the number of conversions to monitor space
Search(r, inp_img, th, ro, normalize_monitor, bm, cfg) ==
    LET rr == ResolveRoi(ro, inp_img)
    IN  IF MissingKeys(r) # {}
        THEN [raised |-> "KeyError", match |-> TemplateMatch, idx |-> 0,
              evaluated |-> <<>>, converts |-> 0]
        ELSE
        SearchLoop(1,
            [rx |-> rr[1], ry |-> rr[2],
             scores |-> [i \in 1..LenRef(r) |-> 0],
             ref_points |-> [i \in 1..LenRef(r) |-> <<0, 0>>],
             template_match |-> TemplateMatch,
             evaluated |-> <<>>, converts |-> 0],
            [templates |-> Templates(r), scales |-> Scales(r), names |-> Names(r),
             threshold |-> ResolveThreshold(th, cfg),
             inp_img |-> Crop(inp_img, rr[1], rr[2], rr[3], rr[4]),
             normalize_monitor |-> normalize_monitor,
             best_match |-> BestMatchMode(r, bm)])

(***************************************************************************)
(* The inputs.                                                               *)
(***************************************************************************)
\* the images handed to search, the kernel's answers being fixed for the
\* templates ids
Images(ids) ==
    [shape : {ImgShape}, val : [ids -> Score], corner : Corners]

\* the images Screen.grab() returns; black: the loading strip is black
Screens(ids) ==
    [shape : {ImgShape}, val : [ids -> ScreenScore], corner : Corners,
     black : BOOLEAN]

RawTemplate == [id |-> RAW, shape |-> RawShape]
SearchRefs ==
    {KeyRef(k) : k \in Keys} \cup {ListRef(ks) : ks \in SeqsUpTo(Keys, MaxLen)}
        \cup {RawRef(RawTemplate)} \cup UnknownKeyRefs
\* the references searched with a region that is not inside the image
OutsideRefs ==
    {KeyRef(k) : k \in Keys} \cup {ListRef(ks) : ks \in SeqsUpTo(Keys, 2)}
        \cup {RawRef(RawTemplate)}
TemplateIds(r) == {t.id : t \in Range(Templates(r))}
OptThresholds == {None} \cup {<<t>> : t \in Thresholds}

Configs == [template_threshold : ConfigThresholds, info_screenshots : BOOLEAN]

(***************************************************************************)
(* TemplateFinder.search_and_wait (lines 125-158), and its pieces.           *)
(***************************************************************************)
\* line 151: np.average(img[:, 0:loading_left_black[2]]) < 1.0
is_loading_black_roi(image) == image.black

\* line 152 without the LOADING bypass
GateOpen_NoBypass(image, r) == ~is_loading_black_roi(image)

\* line 152 with the "not" dropped
GateOpen_WhenBlack(image, r) == is_loading_black_roi(image) \/ "LOADING" \in Range(r)

\* line 152 without the test of the loading strip
GateOpen_Always(image, r) == TRUE

\* line 152: the gate around both returns
GateOpen(image, r) == ~is_loading_black_roi(image) \/ "LOADING" \in Range(r)

\* line 155 with >= for >
TimedOut_NonStrict(to, t, st) == to # None /\ (t - st) >= to[1]

\* line 155 with the operands of the subtraction swapped
TimedOut_Swapped(to, t, st) == to # None /\ (st - t) > to[1]

\* line 155: time_out is not None and (time.time() - start) > time_out
TimedOut(to, t, st) == to # None /\ (t - st) > to[1]

\* line 156 with "or" in the place of "and"
WantScreenshot_Either(cfg, ss) == cfg.info_screenshots \/ ss

\* line 156: the diagnostic image is wanted
WantScreenshot(cfg, ss) == cfg.info_screenshots /\ ss

Init ==
    /\ config \in Configs
    /\ pc = "idle"
    /\ ref = <<>>
    /\ roi = None
    /\ time_out = None
    /\ threshold = config.template_threshold
    /\ best_match = FALSE
    /\ take_ss = FALSE
    /\ start = 0
    /\ img = None
    /\ template_match = TemplateMatch
    /\ now = 0
    /\ call = [made |-> FALSE, op |-> "none"]
    /\ ret = None
    /\ written = <<>>

\* a caller runs search(r, inp_img, th, ro, nm, bm) by itself (as line 173 does)
SearchCall(r, inp_img, th, ro, nm, bm) ==
    /\ pc = "idle"
    /\ call' = [made |-> TRUE, ref |-> r, inp_img |-> inp_img,
                threshold |-> ResolveThreshold(th, config), roi |-> ro,
                normalize_monitor |-> nm, best_match |-> bm,
                waiting |-> FALSE,
                out |-> Search(r, inp_img, th, ro, nm, bm, config)]
    /\ pc' = IF call'.out.raised # "no" THEN "raised" ELSE "returned"
    /\ UNCHANGED <<config, ref, roi, time_out, threshold, best_match, take_ss,
                   start, img, template_match, now, ret, written>>

\* a caller runs get_template(key) (lines 40-41)
GetTemplateCall(key) ==
    /\ pc = "idle"
    /\ call' = [made |-> FALSE, op |-> "get_template", key |-> key,
                out |-> get_template(key)]
    /\ pc' = IF call'.out.raised # "no" THEN "raised" ELSE "returned"
    /\ UNCHANGED <<config, ref, roi, time_out, threshold, best_match, take_ss,
                   start, img, template_match, now, ret, written>>

\* lines 143-147: search_and_wait(r, ro, to, th, bm, ss) up to the loop
Start(r, ro, to, th, bm, ss) ==
    /\ pc = "idle"
    /\ ref' = IF r.kind = "str" THEN <<r.key>> ELSE r.keys
    /\ roi' = ro
    /\ time_out' = to
    /\ threshold' = ResolveThreshold(th, config)
    /\ best_match' = bm
    /\ take_ss' = ss
    /\ start' = now
    /\ pc' = "grab"
    /\ call' = [made |-> FALSE, op |-> "none"]
    /\ UNCHANGED <<config, img, template_match, now, ret, written>>

\* line 150 asking search for monitor coordinates
WaitNormalize_True == TRUE

\* line 150 hands no normalize_monitor to search, whose default (line 49) is
\* False
WaitNormalize == FALSE

\* line 150 searching the image of the iteration before, when there is one
SearchedImage_Previous(grabbed, previous) ==
    IF previous = None THEN grabbed ELSE previous

\* line 150: the image handed to search is img, grabbed at line 149
SearchedImage(grabbed, previous) == grabbed

\* lines 149-150: img = self._screen.grab(), then
\* template_match = self.search(ref, img, roi=roi, threshold=threshold, ...)
Grab(image) ==
    /\ pc = "grab"
    /\ img' = image
    /\ LET out == Search(ListRef(ref), SearchedImage(image, img), <<threshold>>, roi,
                         WaitNormalize, best_match, config)
       IN  /\ call' = [made |-> TRUE, ref |-> ListRef(ref),
                       inp_img |-> SearchedImage(image, img),
                       threshold |-> threshold, roi |-> roi,
                       normalize_monitor |-> WaitNormalize, best_match |-> best_match,
                       waiting |-> TRUE, out |-> out]
           /\ IF out.raised # "no"
              THEN pc' = "raised" /\ UNCHANGED template_match
              ELSE pc' = "decide" /\ template_match' = out.match
    /\ UNCHANGED <<config, ref, roi, time_out, threshold, best_match, take_ss,
                   start, now, ret, written>>

\* line 157: cv2.imwrite returns whether the image was written; TRUE when it
\* was, FALSE when writing it failed
ImwriteResults == BOOLEAN

\* line 157 with a check of what cv2.imwrite returned
AfterImwrite_RaiseOnFailure(ok) == IF ok THEN "done" ELSE "raised"

\* lines 157-158: what cv2.imwrite returned is not looked at, and the return
\* of line 158 follows
AfterImwrite(ok) == "done"

\* lines 151-158: the rest of the iteration
Decide ==
    /\ pc = "decide"
    /\ IF GateOpen(img, ref)
       THEN IF template_match.valid
            THEN pc' = "done" /\ ret' = template_match /\ UNCHANGED written
            ELSE IF TimedOut(time_out, now, start)
            THEN IF WantScreenshot(config, take_ss)
                 THEN \E ok \in ImwriteResults :
                          /\ written' = Append(written, ok)
                          /\ pc' = AfterImwrite(ok)
                          /\ ret' = IF pc' = "done" THEN template_match ELSE ret
                 ELSE pc' = "done" /\ ret' = template_match /\ UNCHANGED written
            ELSE pc' = "grab" /\ UNCHANGED <<ret, written>>
       ELSE pc' = "grab" /\ UNCHANGED <<ret, written>>
    /\ UNCHANGED <<config, ref, roi, time_out, threshold, best_match, take_ss,
                   start, img, template_match, now, call>>

\* time passes while search_and_wait runs
Tick ==
    /\ pc \in {"grab", "decide"}
    /\ now < MaxTime
    /\ now' = now + 1
    /\ UNCHANGED <<config, pc, ref, roi, time_out, threshold, best_match, take_ss,
                   start, img, template_match, call, ret, written>>

\* the guards come first, so that the inputs are drawn only where they are used
Next ==
    \/ /\ pc = "idle"
       /\ \E r \in SearchRefs, ro \in ROIs, th \in OptThresholds, nm \in BOOLEAN,
             bm \in BOOLEAN :
             \E inp_img \in Images(TemplateIds(r)) :
                 SearchCall(r, inp_img, th, ro, nm, bm)
    \/ /\ pc = "idle"
       /\ \E r \in OutsideRefs, ro \in OutsideROIs, th \in OptThresholds,
             nm \in BOOLEAN, bm \in BOOLEAN :
             \E inp_img \in Images(TemplateIds(r)) :
                 SearchCall(r, inp_img, th, ro, nm, bm)
    \/ /\ pc = "idle"
       /\ \E key \in Keys \cup {"X"} : GetTemplateCall(key)
    \/ /\ pc = "idle"
       /\ \E r \in WaitRefs, ro \in ROIs, to \in TimeOuts, th \in OptThresholds,
             bm \in BOOLEAN, ss \in BOOLEAN : Start(r, ro, to, th, bm, ss)
    \/ /\ pc = "grab"
       /\ \E image \in Screens(Range(ref)) : Grab(image)
    \/ Decide
    \/ Tick

Spec == Init /\ [][Next]_vars

\* search_and_wait alone: its loop runs on (the thread is not stopped between
\* two statements), and the clock with it
NextWait ==
    \/ /\ pc = "idle"
       /\ \E r \in WaitRefs, ro \in ROIs, to \in TimeOuts, th \in OptThresholds,
             bm \in BOOLEAN, ss \in BOOLEAN : Start(r, ro, to, th, bm, ss)
    \/ /\ pc = "grab"
       /\ \E image \in Screens(Range(ref)) : Grab(image)
    \/ Decide
    \/ Tick

\* the step that lines 149-150 take, told by the program counter alone
GrabStep == pc = "grab" /\ pc' \in {"decide", "raised"}

FairSpec ==
    /\ Init
    /\ [][NextWait]_vars
    /\ WF_pc(GrabStep)
    /\ WF_vars(Decide)
    /\ WF_vars(Tick)

(***************************************************************************)
(* What the claims speak of, read off the state.                             *)
(***************************************************************************)
\* search_and_wait has searched the image of its last grab and is at line 151
Deciding == pc = "decide"
\* the loading strip of the last grab is black
StripBlack == img.black
\* the reference list of search_and_wait holds the key LOADING
HasLoading == \E i \in DOMAIN ref : ref[i] = "LOADING"
\* the time since the start of the loop is more than time_out
Expired == time_out # None /\ now - start > time_out[1]
\* search_and_wait has returned
Returned == pc = "done"

(***************************************************************************)
(* C1.  As claimed: in any iteration of search_and_wait in which search      *)
(* returns a valid result for the image just grabbed, search_and_wait        *)
(* returns that result in that iteration, without another grab.              *)
(***************************************************************************)
C1_ValidIsReturnedAtOnce ==
    [][(Deciding /\ template_match.valid /\ pc' # pc)
          => (pc' = "done" /\ ret' = template_match /\ img' = img)]_vars

\* C1, amended: in any iteration in which search returns a valid result and
\* the gate of line 152 is open (the loading strip is not black, or ref holds
\* LOADING), search_and_wait returns that result in that iteration, without
\* another grab, whatever the time
C1_ValidIsReturnedWhenGateOpen ==
    [][(Deciding /\ template_match.valid /\ (~StripBlack \/ HasLoading) /\ pc' # pc)
          => (pc' = "done" /\ ret' = template_match /\ img' = img)]_vars

\* a valid result was returned although the time was up
C1_Witness == Returned /\ ret.valid /\ Expired /\ ret = call.out.match

(***************************************************************************)
(* C2.  search_and_wait returns an invalid TemplateMatch only when a         *)
(* time_out was given, the time since the start is more than time_out, and   *)
(* the loading strip is not black or ref holds LOADING.                      *)
(***************************************************************************)
C2_InvalidOnlyOnTimeout ==
    (Returned /\ ~ret.valid)
        => /\ time_out # None
           /\ now - start > time_out[1]
           /\ (~StripBlack \/ HasLoading)

C2_Witness == Returned /\ ~ret.valid /\ ret = template_match

(***************************************************************************)
(* C3.  While the loading strip is black and ref does not hold LOADING, an   *)
(* iteration that found no match does not return, however long ago the time  *)
(* was up: a timeout result is returned only by an iteration whose image has *)
(* no black strip.                                                           *)
(***************************************************************************)
C3_NoTimeoutWhileSuppressed ==
    [][(Deciding /\ StripBlack /\ ~HasLoading /\ ~template_match.valid)
          => pc' # "done"]_vars

\* suppressed, no match, and the time is up by more than one unit
C3_Witness ==
    /\ Deciding /\ StripBlack /\ ~HasLoading /\ ~template_match.valid
    /\ time_out # None /\ now - start > time_out[1] + 1

(***************************************************************************)
(* C4.  As claimed: search_and_wait with time_out = 0, every grab of which   *)
(* yields an image that search finds no match in, returns, and returns an    *)
(* invalid TemplateMatch.                                                    *)
(***************************************************************************)
\* no grab yields an image with a match
NeverMatches == [](Deciding => ~template_match.valid)
\* search_and_wait runs with time_out = 0
RunsWithZeroTimeout == pc = "grab" /\ time_out = <<0>>

C4_ZeroTimeoutReturns ==
    NeverMatches => (RunsWithZeroTimeout ~> (Returned /\ ~ret.valid))

\* C4, amended: search_and_wait with time_out = 0, every grab of which yields
\* an image that search finds no match in and whose loading strip is not
\* black (or with LOADING in ref), returns, and returns an invalid
\* TemplateMatch
NeverSuppressed == [](Deciding => (~StripBlack \/ HasLoading))

C4_ZeroTimeoutReturnsWhenGateOpen ==
    (NeverMatches /\ NeverSuppressed)
        => (RunsWithZeroTimeout ~> (Returned /\ ~ret.valid))

\* it has returned on the timeout of 0, without a match
C4_Witness == Returned /\ time_out = <<0>> /\ ~ret.valid /\ ~StripBlack

(***************************************************************************)
(* The candidates of the last search, told from its arguments alone.         *)
(***************************************************************************)
\* a search over a list of keys was made and has returned
ListSearched == call.made /\ call.out.raised = "no" /\ call.ref.kind = "list"
\* the template of candidate i of the list
CandTemplate(i) == _templates[call.ref.keys[i]][1]
\* the region that is searched: inp_img cut to the roi
CandRegion ==
    LET rr == ResolveRoi(call.roi, call.inp_img)
    IN  Crop(call.inp_img, rr[1], rr[2], rr[3], rr[4])
\* candidate i is strictly smaller than the region, so it is correlated
CandFits(i) ==
    /\ CandRegion.shape[1] > CandTemplate(i).shape[1]
    /\ CandRegion.shape[2] > CandTemplate(i).shape[2]
\* the score the kernel finds for candidate i
CandScore(i) == call.inp_img.val[call.ref.keys[i]]
\* candidate i is correlated and its score is strictly above the threshold
CandExceeds(i) == CandFits(i) /\ CandScore(i) > call.threshold
\* the position search computes for candidate i
CandPosition(i) ==
    LET rr == ResolveRoi(call.roi, call.inp_img)
        t == CandTemplate(i)
        p == RefPoint(MatchTemplate(CandRegion, t).max_pos, t, rr[1], rr[2], 1)
    IN  IF call.normalize_monitor THEN convert_screen_to_monitor(p) ELSE p
\* the candidates, by index
Cands == DOMAIN call.ref.keys
\* the scores of the three candidates are 0.4, 0.9, 0.9, the threshold is 0.3
StubScores ==
    /\ ListSearched /\ Len(call.ref.keys) = 3 /\ call.threshold = 3
    /\ \A i \in Cands : CandFits(i)
    /\ <<CandScore(1), CandScore(2), CandScore(3)>> = <<4, 9, 9>>

(***************************************************************************)
(* C5.  Every valid TemplateMatch that search returns has a position and a   *)
(* score, and the score is strictly above the threshold of that search.      *)
(***************************************************************************)
C5_ValidHasPositionAndScore ==
    (call.made /\ call.out.raised = "no" /\ call.out.match.valid)
        => /\ call.out.match.position # None
           /\ Len(call.out.match.position) = 2
           /\ call.out.match.score \in Score
           /\ call.out.match.score > call.threshold

\* a valid result of best-match mode
C5_Witness ==
    /\ call.made /\ call.out.raised = "no" /\ call.out.match.valid
    /\ call.best_match /\ call.out.match.score = 4

(***************************************************************************)
(* C6.  In first-match mode over a list of keys, search returns the first    *)
(* candidate, in list order, whose score is strictly above the threshold:    *)
(* the result is valid, has its name and score, no candidate after it is     *)
(* correlated, and none before it was above the threshold; with no such      *)
(* candidate the result is invalid.                                          *)
(***************************************************************************)
C6_FirstMatch ==
    (ListSearched /\ ~call.best_match)
        => IF \E i \in Cands : CandExceeds(i)
           THEN \E i \in Cands :
                   /\ CandExceeds(i)
                   /\ \A j \in Cands : j < i => ~CandExceeds(j)
                   /\ call.out.match.valid
                   /\ call.out.match.name = call.ref.keys[i]
                   /\ call.out.match.score = CandScore(i)
                   /\ call.out.match.position = CandPosition(i)
                   /\ \A j \in Range(call.out.evaluated) : j <= i
           ELSE ~call.out.match.valid

\* the second of three candidates is returned, the third being above the
\* threshold too
C6_Witness ==
    /\ ListSearched /\ ~call.best_match /\ Len(call.ref.keys) = 3
    /\ ~CandExceeds(1) /\ CandExceeds(2) /\ CandExceeds(3)
    /\ call.ref.keys[2] # call.ref.keys[3]
    /\ call.out.match.name = call.ref.keys[2]
    /\ call.out.evaluated = <<1, 2>>

(***************************************************************************)
(* C7.  In best-match mode over a non-empty list of keys, with a threshold   *)
(* in -1.0 .. 1.0, the result of search is valid if and only if the score of *)
(* at least one candidate is strictly above the threshold.                   *)
(***************************************************************************)
C7_BestMatchValidIffExceeded ==
    (ListSearched /\ call.best_match /\ Cands # {}
        /\ call.threshold \in -10..10)
        => (call.out.match.valid <=> \E i \in Cands : CandExceeds(i))

(***************************************************************************)
(* C8.  In best-match mode a valid result of search has the name, the score  *)
(* and the position of the candidate whose score is the greatest of all      *)
(* candidates correlated, the earliest in the list of those that share it.   *)
(***************************************************************************)
C8_BestMatchIsFirstMaximum ==
    (ListSearched /\ call.best_match /\ call.out.match.valid)
        => \E i \in Cands :
              /\ CandFits(i)
              /\ \A j \in Cands : CandFits(j) => CandScore(j) <= CandScore(i)
              /\ \A j \in Cands :
                     (CandFits(j) /\ CandScore(j) = CandScore(i)) => i <= j
              /\ call.out.match.name = call.ref.keys[i]
              /\ call.out.match.score = CandScore(i)
              /\ call.out.match.position = CandPosition(i)

\* scores 0.4, 0.9, 0.9 and threshold 0.3: the second candidate, whose
\* key is not the third's
C8_Witness ==
    /\ StubScores /\ call.best_match /\ call.out.match.valid
    /\ call.ref.keys[2] # call.ref.keys[3]
    /\ call.out.match.name = call.ref.keys[2]
    /\ call.out.match.position = CandPosition(2)
    /\ call.out.match.position # CandPosition(3)

(***************************************************************************)
(* C9.  As claimed: first-match mode over three candidates whose scores are  *)
(* 0.4, 0.9, 0.9, with threshold 0.3, returns the second candidate.          *)
(***************************************************************************)
C9_FirstMatchReturnsSecond ==
    (StubScores /\ ~call.best_match)
        => /\ call.out.match.valid
           /\ call.out.match.name = call.ref.keys[2]
           /\ call.out.match.score = CandScore(2)
           /\ call.out.match.position = CandPosition(2)

\* C9, amended: first-match mode over three candidates whose scores are 0.4,
\* 0.9, 0.9, with threshold 0.3, returns the first candidate, whose score 0.4
\* is above 0.3, and correlates neither the second nor the third
C9_FirstMatchReturnsFirst ==
    (StubScores /\ ~call.best_match)
        => /\ call.out.match.valid
           /\ call.out.match.name = call.ref.keys[1]
           /\ call.out.match.score = 4
           /\ call.out.match.position = CandPosition(1)
           /\ call.out.evaluated = <<1>>

\* the three keys differ, and the first is returned
C9_Witness ==
    /\ StubScores /\ ~call.best_match
    /\ Cardinality(Range(call.ref.keys)) = 3
    /\ call.out.match.name = call.ref.keys[1]

(***************************************************************************)
(* C10.  With LOADING in the reference list, what an iteration of            *)
(* search_and_wait decides depends on the match and the time only: it        *)
(* returns when the match is valid or the time is up, and polls again        *)
(* otherwise, whether the loading strip is black or not.                     *)
(***************************************************************************)
C10_LoadingBypassesSuppression ==
    [][(Deciding /\ HasLoading /\ pc' # pc)
          => /\ (template_match.valid \/ Expired)
                  => (pc' = "done" /\ ret' = template_match)
             /\ ~(template_match.valid \/ Expired)
                  => (pc' = "grab" /\ ret' = ret)]_vars

\* with LOADING in ref it has returned on an image whose strip is black
C10_Witness == Returned /\ HasLoading /\ StripBlack /\ ~ret.valid

(***************************************************************************)
(* C11.  A search whose reference holds a key that is not in the Template    *)
(* Store, as the single key or at any index of a key list, raises the lookup *)
(* error: it returns no TemplateMatch and correlates no candidate, also in   *)
(* first-match mode with an earlier candidate above the threshold.           *)
(* get_template of such a key raises the lookup error as well.               *)
(***************************************************************************)
HasUnknownKey ==
    /\ call.made
    /\ \E i \in DOMAIN KeysOf(call.ref) : KeysOf(call.ref)[i] \notin Keys

C11_UnknownKeyRaises ==
    /\ HasUnknownKey
          => /\ pc = "raised"
             /\ call.out.raised = "KeyError"
             /\ call.out.evaluated = <<>>
             /\ ret = None
    /\ (~call.made /\ call.op = "get_template")
          => IF call.key \in Keys
             THEN pc = "returned" /\ call.out.template = _templates[call.key][1]
             ELSE pc = "raised" /\ call.out.raised = "KeyError"

\* first-match search of [A, X] on an image where A is above the threshold
C11_Witness ==
    /\ HasUnknownKey
    /\ call.ref = ListRef(<<"A", "X">>)
    /\ ~call.best_match
    /\ call.inp_img.val["A"] > call.threshold
    /\ call.roi = None
    /\ pc = "raised"

(***************************************************************************)
(* C12.  A search over the empty key list evaluates no candidate and         *)
(* returns, without raising, a TemplateMatch that is not valid and carries   *)
(* the sentinel score, in first-match and in best-match mode.                *)
(***************************************************************************)
EmptyListSearched ==
    call.made /\ call.ref.kind = "list" /\ call.ref.keys = <<>>

C12_EmptyListReturnsInvalid ==
    EmptyListSearched
        => /\ call.out.raised = "no"
           /\ pc # "raised"
           /\ ~call.out.match.valid
           /\ call.out.match.score = DefaultScore
           /\ call.out.evaluated = <<>>

(***************************************************************************)
(* C13.  A search whose region of interest reaches beyond the image, or has  *)
(* a negative width or height, fails with an error: it returns no            *)
(* TemplateMatch computed from a clipped or empty region.                    *)
(***************************************************************************)
\* [left, top, width, height] lies inside the image of the call
RoiInside(r, image) ==
    /\ r[1] >= 0 /\ r[2] >= 0 /\ r[3] >= 0 /\ r[4] >= 0
    /\ r[1] + r[3] <= image.shape[2]
    /\ r[2] + r[4] <= image.shape[1]

RoiOutside ==
    call.made /\ call.roi # None /\ ~RoiInside(call.roi, call.inp_img)

C13_InvalidRegionRaises ==
    RoiOutside => (pc = "raised" /\ call.out.raised # "no")

(***************************************************************************)
(* C14.  When search_and_wait runs into its timeout with the diagnostic      *)
(* screenshot wanted and writing the image fails, the failure does not       *)
(* reach the caller: search_and_wait still returns the TemplateMatch of the  *)
(* last search, which is not valid.                                          *)
(***************************************************************************)
WriteFailed == written # <<>> /\ ~written[Len(written)]

C15_ScreenshotOnlyOnTimeout ==
    /\ Len(written) <= 1
    /\ written # <<>>
          => /\ Returned /\ ~ret.valid
             /\ config.info_screenshots /\ take_ss
    /\ (Returned /\ ~ret.valid)
          => (Len(written) = 1 <=> (config.info_screenshots /\ take_ss))
    /\ (Returned /\ ret.valid) => written = <<>>

\* the timeout result is returned after one second of polling, and the image
\* was written in that iteration
C15_Witness ==
    /\ Returned /\ ~ret.valid
    /\ time_out = <<1>> /\ now - start > 1
    /\ Len(written) = 1

(***************************************************************************)
(* C16.  Every iteration of search_and_wait captures one image and then      *)
(* runs one search, on that image; deciding captures and searches nothing.   *)
(* search_and_wait returns only out of an iteration, so after at least one   *)
(* capture and one search, also when time_out is 0, and what it returns is   *)
(* the result of the search of the image captured last.                      *)
(***************************************************************************)
C16_OneCaptureOneSearchPerIteration ==
    [][/\ (pc = "grab" /\ pc' # "grab")
            => /\ pc' \in {"decide", "raised"}
               /\ call'.made /\ call'.waiting
               /\ call'.ref = ListRef(ref)
               /\ call'.inp_img = img'
               /\ pc' = "decide" => template_match' = call'.out.match
       /\ (pc = "decide" /\ pc' # "decide")
            => (img' = img /\ call' = call /\ template_match' = template_match)
       /\ (pc' = "done" /\ pc # "done")
            => /\ pc = "decide"
               /\ call.made /\ call.waiting /\ call.inp_img = img
               /\ ret' = call.out.match]_vars

\* with time_out 0 it has returned, after time has passed, the result of the
\* search of the image captured last
C16_Witness ==
    /\ Returned /\ time_out = <<0>>
    /\ now > start
    /\ call.made /\ call.inp_img = img /\ ret = call.out.match
    /\ ~ret.valid

(***************************************************************************)
(* C17.  Every TemplateMatch that search returns as not valid, over a        *)
(* reference that is not empty, has no name, no position and the score -1.0, *)
(* in first-match and in best-match mode: nothing of a candidate that was    *)
(* correlated is left in it.                                                 *)
(***************************************************************************)
SearchReturned == call.made /\ call.out.raised = "no"

C17_InvalidIsDefault ==
    (SearchReturned /\ ~call.out.match.valid)
        => /\ call.out.match.name = "None"
           /\ call.out.match.position = <<>>
           /\ call.out.match.score = -10
           /\ call.out.idx = 0

\* a best-match search that correlated two candidates, the first above the
\* threshold, and returned a result that is not valid
C17_Witness ==
    /\ SearchReturned /\ ~call.out.match.valid
    /\ call.ref.kind = "list" /\ call.best_match
    /\ Len(call.out.evaluated) = 2
    /\ CandExceeds(1)

(***************************************************************************)
(* C18.  A candidate whose template is not strictly smaller than the region  *)
(* searched, in height and in width, is never correlated and is never the    *)
(* candidate a valid result is made of; search goes on to the candidates     *)
(* after it, which are correlated when they are strictly smaller.            *)
(***************************************************************************)
\* search reaches candidate i: in first-match mode no candidate before it
\* has ended the search
Reached(i) ==
    call.best_match \/ \A j \in 1..(i - 1) : ~CandExceeds(j)

C18_OversizedSkipped ==
    ListSearched
        => /\ \A k \in DOMAIN call.out.evaluated : CandFits(call.out.evaluated[k])
           /\ call.out.match.valid
                 => (call.out.idx \in Cands /\ CandFits(call.out.idx))
           /\ \A i \in Cands :
                 (CandFits(i) /\ Reached(i)) => i \in Range(call.out.evaluated)

\* the first candidate is as large as the region and is skipped; the second
\* is correlated and the valid result is made of it
C18_Witness ==
    /\ ListSearched /\ Len(call.ref.keys) >= 2
    /\ ~CandFits(1) /\ CandScore(1) > call.threshold
    /\ call.out.evaluated = <<2>>
    /\ call.out.match.valid /\ call.out.idx = 2

(***************************************************************************)
(* C19.  For every valid result of a search without normalize_monitor whose  *)
(* region of interest lies inside the image, the position is the anchor of   *)
(* the match plus half the template size, rounded down, plus the origin of   *)
(* the region; so left <= x < left + width and top <= y < top + height,      *)
(* whichever candidate of the list the result is made of.                    *)
(***************************************************************************)
InsideSearched ==
    /\ ListSearched /\ call.out.match.valid
    /\ ~call.normalize_monitor
    /\ (call.roi = None \/ RoiInside(call.roi, call.inp_img))

C19_PositionInsideRoi ==
    InsideSearched
        => LET region == IF call.roi = None
                         THEN <<0, 0, call.inp_img.shape[2], call.inp_img.shape[1]>>
                         ELSE call.roi
               t == CandTemplate(call.out.idx)
               anchor == MatchTemplate(CandRegion, t).max_pos
               x == call.out.match.position[1]
               y == call.out.match.position[2]
           IN  /\ x = anchor[1] + (t.shape[2] \div 2) + region[1]
               /\ y = anchor[2] + (t.shape[1] \div 2) + region[2]
               /\ region[1] <= x /\ x < region[1] + region[3]
               /\ region[2] <= y /\ y < region[2] + region[4]

\* the result is made of the third candidate, matched at the far corner of
\* a region that does not start at the origin
C19_Witness ==
    /\ InsideSearched
    /\ call.roi = <<1, 1, 2, 2>>
    /\ call.out.idx = 3
    /\ call.inp_img.corner = "last"
    /\ call.out.match.position = <<2, 2>>

(***************************************************************************)
(* C20.  As claimed: with normalize_monitor true a search that returns a     *)
(* valid result has run the conversion to monitor coordinates exactly once,  *)
(* on the position it returns, and not once per candidate; with              *)
(* normalize_monitor false, and in every search search_and_wait runs, the    *)
(* conversion is not run.                                                    *)
(***************************************************************************)
C20_ConvertedOnce ==
    SearchReturned
        => /\ (call.normalize_monitor /\ call.out.match.valid)
                 => call.out.converts = 1
           /\ (~call.normalize_monitor \/ call.waiting)
                 => call.out.converts = 0

\* the candidates of the list that were correlated and are above the threshold
ExceedingEvaluated ==
    {i \in Range(call.out.evaluated) : CandScore(i) > call.threshold}

(***************************************************************************)
(* C20.  With normalize_monitor true, search runs the conversion once for    *)
(* every candidate that is correlated and is above the threshold: once in    *)
(* first-match mode when the result is valid, once per such candidate in     *)
(* best-match mode, and not at all when no candidate is above the threshold; *)
(* the position of a valid result is the converted position of the candidate *)
(* it is made of.  With normalize_monitor false, and in every search that    *)
(* search_and_wait runs, the conversion is not run.                          *)
(***************************************************************************)
C20_ConvertedPerExceedingCandidate ==
    /\ ListSearched
          => /\ call.out.converts = IF call.normalize_monitor
                                    THEN Cardinality(ExceedingEvaluated) ELSE 0
             /\ (call.normalize_monitor /\ ~call.best_match)
                   => call.out.converts = IF call.out.match.valid THEN 1 ELSE 0
             /\ (call.normalize_monitor /\ call.out.match.valid)
                   => call.out.match.position = CandPosition(call.out.idx)
    /\ (call.made /\ call.waiting)
          => (~call.normalize_monitor /\ call.out.converts = 0)

\* a best-match search with normalize_monitor in which two candidates are
\* above the threshold: the conversion has run twice
C20_Witness ==
    /\ ListSearched /\ call.normalize_monitor /\ call.best_match
    /\ call.out.match.valid
    /\ Cardinality(ExceedingEvaluated) = 2
    /\ call.out.converts = 2

====
